---- MODULE Spec2Model ----
(***************************************************************************)
(* State-machine model of nsw_fuel.client.FuelCheckClient: the token       *)
(* manager (_async_get_token), the request engine (_async_request) and the *)
(* four public operations, with the DTO layer of nsw_fuel.dto as pure      *)
(* operators.  Each action is one run of the code between two awaits of    *)
(* an HTTP call.                                                           *)
(***************************************************************************)
EXTENDS Integers, Sequences, FiniteSets, TLC

(***************************************************************************)
(* Bounds of the model                                                     *)
(***************************************************************************)
\* how many times the clock advances in one behaviour
MaxTicks == 2

\* the longest stations list and prices list of a body applied on its own
MaxItems == 2

(***************************************************************************)
(* Program constants                                                       *)
(***************************************************************************)
HTTP_UNAUTHORIZED == 401
HTTP_INTERNAL_SERVER_ERROR == 500
HTTP_TIMEOUT_ERROR == 408
HTTP_CLIENT_SERVER_ERROR == 400
\* the refresh margin of _async_get_token, in seconds
EXPIRY_MARGIN == 60
\* the default of result.get("expires_in", 3600)
DEFAULT_EXPIRES_IN == 3600

(***************************************************************************)
(* Values                                                                  *)
(***************************************************************************)
\* Python's None where a string may stand
NoneVal == "<None>"

\* Python truthiness of an optional string: None and "" are falsy
Truthy(s) == s # NoneVal /\ s # ""

\* Python's  a or b  on optional strings
PyOr(a, b) == IF Truthy(a) THEN a ELSE b

\* the two client processes; a specification runs those in  active
Procs == {1, 2}

\* the FuelCheckClient instances; each has its own _token and _token_expiry
Clients == {1, 2}

\* the public operations
OpKinds == {"get_fuel_prices", "get_fuel_prices_for_station",
            "get_fuel_prices_within_radius", "get_reference_data"}

\* the steps by which the environment's clock (time.time()) advances
TickSteps == {1, 60}

\* access_token values of a token response: absent, empty, two tokens
AccessTokens == {NoneVal, "", "tokA", "tokB"}

\* expires_in of a token response: absent, a JSON number, a numeric string,
\* or a value int() rejects
ExpiresIns ==
    {[k |-> "absent", v |-> 0], [k |-> "bad", v |-> 0]}
    \cup {[k |-> "int", v |-> n] : n \in {60, 61}}
    \cup {[k |-> "str", v |-> n] : n \in {61}}

\* what the token endpoint can answer
TokenFailures == {"http401", "httpOther", "notJson", "notObject", "osError", "nonOsError"}

TokenResponses ==
    {[kind |-> "ok", access_token |-> a, expires_in |-> e] :
        a \in AccessTokens, e \in ExpiresIns}
    \cup {[kind |-> f, access_token |-> NoneVal, expires_in |-> [k |-> "absent", v |-> 0]] :
        f \in TokenFailures}

(***************************************************************************)
(* Token manager: _async_get_token                                         *)
(***************************************************************************)
\* the negation of  not self._token or now > (self._token_expiry - 60)
CacheValidBoundaryMut(tok, exp, t) == Truthy(tok) /\ t < exp - EXPIRY_MARGIN - 1

CacheValidNoTokenTestMut(tok, exp, t) == ~(t > exp - EXPIRY_MARGIN)

CacheValidDoubleMarginMut(tok, exp, t) ==
    Truthy(tok) /\ ~(t > exp - 2 * EXPIRY_MARGIN)

CacheValid(tok, exp, t) == Truthy(tok) /\ ~(t > exp - EXPIRY_MARGIN)

\* int(result.get("expires_in", 3600)): does the conversion succeed
IntConvertible(e) == e.k \in {"absent", "int", "str"}

\* int(result.get("expires_in", 3600)): its value
ExpiresInNoDefaultMut(e) == e.v

ExpiresInOf(e) == IF e.k = "absent" THEN DEFAULT_EXPIRES_IN ELSE e.v

\* self._token after the branch on  access_token is not None
KeepOnMissingMut(tok, at) == IF at # NoneVal THEN at ELSE tok

CachedAfterExchange(tok, at) == IF at # NoneVal THEN at ELSE NoneVal

\* The exchange branch of _async_get_token once the token endpoint has
\* answered  resp, with  t  the value of  now  read before the call and
\* tok, exp  the cache at the time of the answer.  exc is what the call
\* raises: "none", "generic" (NSWFuelApiClientError), "auth"
\* (NSWFuelApiClientAuthError) or "raw" (an exception of another type).
Exchange(resp, tok, exp, t) ==
    CASE resp.kind = "http401" ->
            [exc |-> "auth", token |-> tok, expiry |-> exp, ret |-> NoneVal]
      [] resp.kind \in {"httpOther", "notJson", "osError"} ->
            [exc |-> "generic", token |-> tok, expiry |-> exp, ret |-> NoneVal]
      [] resp.kind \in {"notObject", "nonOsError"} ->
            [exc |-> "raw", token |-> tok, expiry |-> exp, ret |-> NoneVal]
      [] OTHER ->
            IF resp.access_token = NoneVal
            THEN [exc |-> "generic", token |-> CachedAfterExchange(tok, resp.access_token),
                  expiry |-> exp, ret |-> NoneVal]
            ELSE IF ~IntConvertible(resp.expires_in)
            THEN [exc |-> "raw", token |-> CachedAfterExchange(tok, resp.access_token),
                  expiry |-> exp, ret |-> NoneVal]
            ELSE [exc |-> "none", token |-> CachedAfterExchange(tok, resp.access_token),
                  expiry |-> t + ExpiresInOf(resp.expires_in),
                  ret |-> CachedAfterExchange(tok, resp.access_token)]

(***************************************************************************)
(* Response bodies                                                         *)
(***************************************************************************)
\* A decoded body:  form  is "text" (not JSON: response.text()), "null"
\* (an empty body, json() gives None) or "dict".  ed* describe the
\* errorDetails key; prices/stations/ref the payload keys.
NoEd == [shape |-> "absent", description |-> NoneVal, message |-> NoneVal]

\* lastupdated of a price entry: absent, null, one of the two formats (ts is
\* the instant written), or a string in neither format
DmyTime(n) == [k |-> "dmy", ts |-> n]
YmdTime(n) == [k |-> "ymd", ts |-> n]

\* a wire value of a station code: a JSON number, a numeric string, null, a
\* non-numeric string, or the key absent
IntCode(n) == [k |-> "int", v |-> n]
StrCode(n) == [k |-> "str", v |-> n]
AbsentCode == [k |-> "absent", v |-> 0]
NullCode == [k |-> "null", v |-> 0]
WordCode == [k |-> "word", v |-> 0]

PriceItem(code, lu) ==
    [fueltype |-> TRUE, price |-> TRUE, lastupdated |-> lu, stationcode |-> code]

StationItem(code) == [code |-> code, complete |-> TRUE]

EmptyBody(form) ==
    [form |-> form, ed |-> NoEd, hasPrices |-> FALSE, prices |-> << >>,
     hasStations |-> FALSE, stations |-> << >>, ref |-> {}, refItemsOk |-> TRUE]

ErrBody(shape, d, m) ==
    [EmptyBody("dict") EXCEPT !.ed = [shape |-> shape, description |-> d, message |-> m]]

PricesBody(hasS, ss, hasP, ps) ==
    [EmptyBody("dict") EXCEPT !.hasPrices = hasP, !.prices = ps,
                              !.hasStations = hasS, !.stations = ss]

\* the sub-collections GetReferenceDataResponse.deserialize reads
RefCollections == {"stations", "brands", "fueltypes", "trendperiods", "sortfields"}

RefBody(cols, ok) == [EmptyBody("dict") EXCEPT !.ref = cols, !.refItemsOk = ok]

\* the bodies the API endpoint answers with in the model
ErrorBodies ==
    { EmptyBody("text"), EmptyBody("null"), EmptyBody("dict"),
      ErrBody("list", "X", NoneVal), ErrBody("list", "", "Y"),
      ErrBody("list", NoneVal, NoneVal), ErrBody("object", NoneVal, "Y"),
      ErrBody("emptyList", NoneVal, NoneVal), ErrBody("listNonObj", NoneVal, NoneVal) }

PayloadBodies ==
    { PricesBody(TRUE, <<StationItem(IntCode(1))>>, TRUE,
                 <<PriceItem(IntCode(1), DmyTime(5))>>),
      PricesBody(TRUE, <<StationItem(StrCode(1))>>, TRUE,
                 <<PriceItem(AbsentCode, YmdTime(5)), PriceItem(IntCode(2), DmyTime(6))>>),
      PricesBody(FALSE, << >>, TRUE, <<PriceItem(AbsentCode, [k |-> "garbage", ts |-> 0])>>),
      PricesBody(TRUE, <<StationItem(IntCode(1))>>, TRUE,
                 <<PriceItem(IntCode(1), [k |-> "absent", ts |-> 0])>>),
      PricesBody(TRUE, <<[code |-> IntCode(1), complete |-> FALSE]>>, TRUE,
                 <<PriceItem(IntCode(1), DmyTime(5))>>),
      PricesBody(TRUE, << >>, TRUE, << >>),
      PricesBody(TRUE, <<StationItem(IntCode(1))>>, FALSE, << >>),
      RefBody(RefCollections, TRUE), RefBody(RefCollections, FALSE),
      RefBody(RefCollections \ {"sortfields"}, TRUE) }

Bodies == ErrorBodies \cup PayloadBodies

\* Python truthiness of the decoded body ( not response )
BodyTruthy(b) ==
    CASE b.form = "text" -> TRUE
      [] b.form = "null" -> FALSE
      [] OTHER -> b.ed.shape # "absent" \/ b.hasPrices \/ b.hasStations \/ b.ref # {}

(***************************************************************************)
(* _extract_error_details                                                  *)
(***************************************************************************)
\* exc: the call raises (AttributeError on an entry that is no dict);
\* val: the message returned, NoneVal for None
ExtractErrorDetails(b) ==
    IF b.form # "dict" THEN [exc |-> FALSE, val |-> NoneVal]
    ELSE CASE b.ed.shape \in {"list", "object"} ->
                [exc |-> FALSE, val |-> PyOr(b.ed.description, b.ed.message)]
           [] b.ed.shape = "listNonObj" -> [exc |-> TRUE, val |-> NoneVal]
           [] OTHER -> [exc |-> FALSE, val |-> NoneVal]

(***************************************************************************)
(* DTO layer: nsw_fuel.dto                                                 *)
(***************************************************************************)
\* int(x) of a wire value: does it succeed, and its value
IntOk(c) == c.k \in {"int", "str"}

\* datetime.strptime on the two formats, ValueError suppressed: ok is FALSE
\* when another exception escapes (KeyError on an absent key, TypeError on
\* null); ts is -1 for None
ParseLastUpdated(lu) ==
    CASE lu.k \in {"dmy", "ymd"} -> [ok |-> TRUE, ts |-> lu.ts]
      [] lu.k = "garbage" -> [ok |-> TRUE, ts |-> -1]
      [] OTHER -> [ok |-> FALSE, ts |-> -1]

\* Price.deserialize: ok is FALSE when it raises
PriceDeserializeLenientMut(d) ==
    LET lu == ParseLastUpdated(d.lastupdated)
    IN  [ok |-> lu.ok /\ d.fueltype /\ d.price,
         last_updated |-> lu.ts,
         has_station_code |-> IntOk(d.stationcode),
         station_code |-> d.stationcode.v]

PriceDeserialize(d) ==
    LET lu == ParseLastUpdated(d.lastupdated)
        codeOk == d.stationcode.k = "absent" \/ IntOk(d.stationcode)
    IN  [ok |-> lu.ok /\ codeOk /\ d.fueltype /\ d.price,
         last_updated |-> lu.ts,
         has_station_code |-> d.stationcode.k # "absent",
         station_code |-> d.stationcode.v]

\* Station.deserialize: ok is FALSE when it raises
StationDeserialize(d) ==
    [ok |-> d.complete /\ IntOk(d.code), code |-> d.code.v]

\* the list comprehensions over the entries: does none raise
AllStationsOk(seq) == \A i \in 1..Len(seq) : StationDeserialize(seq[i]).ok

AllPricesOk(seq) == \A i \in 1..Len(seq) : PriceDeserialize(seq[i]).ok

\* GetFuelPricesResponse.deserialize: does it return
FuelPricesDeserializeOk(b) ==
    AllStationsOk(b.stations) /\ AllPricesOk(b.prices)

\* GetReferenceDataResponse.deserialize: does it return
ReferenceIgnoresMissingMut(b) == b.form = "dict" /\ b.refItemsOk

ReferenceDeserializeOk(b) == b.form = "dict" /\ b.ref = RefCollections /\ b.refItemsOk

(***************************************************************************)
(* Request engine: _async_request                                          *)
(***************************************************************************)
\* an error message: the errorDetails text ("details"), a text holding the
\* HTTP reason phrase ("reason"), or any other text ("fixed")
NoMsg == [form |-> "none", text |-> ""]
ReasonMsg == [form |-> "reason", text |-> ""]
FixedMsg == [form |-> "fixed", text |-> ""]
DetailsMsg(d) == [form |-> "details", text |-> d]

\* error_details_msg or f"... {status}: {response.reason}"
DetailsOrReason(d) == IF Truthy(d) THEN DetailsMsg(d) ELSE ReasonMsg

\* if status == HTTP_UNAUTHORIZED: the branch that refreshes and re-issues
RefreshOn408Mut(status) == status \in {HTTP_UNAUTHORIZED, HTTP_TIMEOUT_ERROR}

RefreshOnAnyErrorMut(status) == status >= HTTP_UNAUTHORIZED

ShouldRefresh(status) == status = HTTP_UNAUTHORIZED

\* self._token = None  on a 401
KeepOn401Mut(tok) == tok

InvalidateOn401(tok) == NoneVal

\* the branch  if status >= 400  of the first attempt (a 401 never gets here)
FirstAttemptErrorThresholdMut(status, b) ==
    IF status >= HTTP_CLIENT_SERVER_ERROR
    THEN [kind |-> "connection", msg |-> ReasonMsg]
    ELSE [kind |-> "generic", msg |-> ReasonMsg]

FirstAttemptError(status, b) ==
    LET d == ExtractErrorDetails(b)
    IN  IF d.exc THEN [kind |-> "generic", msg |-> FixedMsg]
        ELSE IF status = HTTP_UNAUTHORIZED
        THEN [kind |-> "auth",
              msg |-> IF Truthy(d.val) THEN DetailsMsg(d.val) ELSE FixedMsg]
        ELSE IF status >= HTTP_INTERNAL_SERVER_ERROR
        THEN [kind |-> "connection", msg |-> DetailsOrReason(d.val)]
        ELSE [kind |-> "generic", msg |-> DetailsOrReason(d.val)]

\* except ClientResponseError, entered by retry.raise_for_status()
RetryError(status, b) ==
    IF status = HTTP_UNAUTHORIZED THEN [kind |-> "auth", msg |-> FixedMsg]
    ELSE IF status >= HTTP_INTERNAL_SERVER_ERROR
    THEN [kind |-> "connection", msg |-> ReasonMsg]
    ELSE [kind |-> "generic", msg |-> ReasonMsg]

\* except ClientError / except Exception: a failure of the HTTP call itself
TransportError(t) == [kind |-> "generic", msg |-> FixedMsg]

\* what an exception raised by _async_get_token becomes inside the try block
\* (the refresh after a 401): the client's own errors pass, others are wrapped
InTry(exc) == IF exc = "raw" THEN "generic" ELSE exc

(***************************************************************************)
(* Public operations: what follows the return of _async_request            *)
(***************************************************************************)
\* "prices" in response  and  "stations" in response
HasKey(b, key) ==
    b.form = "dict" /\ (IF key = "prices" THEN b.hasPrices ELSE b.hasStations)

\* each gives "ok" (a typed result), "generic" (NSWFuelApiClientError raised
\* by the validation) or "raw" (another exception, from the DTO layer)
PostGetFuelPricesNoStationsKeyMut(b) ==
    IF ~BodyTruthy(b) THEN "generic"
    ELSE IF ~HasKey(b, "prices") THEN "generic"
    ELSE IF FuelPricesDeserializeOk(b) THEN "ok" ELSE "raw"

PostGetFuelPrices(b) ==
    IF ~BodyTruthy(b) THEN "generic"
    ELSE IF ~HasKey(b, "prices") \/ ~HasKey(b, "stations") THEN "generic"
    ELSE IF FuelPricesDeserializeOk(b) THEN "ok" ELSE "raw"

PostForStation(b) ==
    IF ~BodyTruthy(b) \/ ~HasKey(b, "prices") THEN "generic"
    ELSE IF b.prices = << >> THEN "generic"
    ELSE IF AllPricesOk(b.prices) THEN "ok" ELSE "raw"

PostWithinRadius(b) ==
    IF ~BodyTruthy(b) \/ ~HasKey(b, "stations") \/ ~HasKey(b, "prices") THEN "generic"
    ELSE IF b.stations = << >> \/ b.prices = << >> THEN "generic"
    ELSE IF AllStationsOk(b.stations) THEN "ok" ELSE "raw"

PostReference(b) ==
    IF ~BodyTruthy(b) THEN "generic"
    ELSE IF ReferenceDeserializeOk(b) THEN "ok" ELSE "raw"

Post(kind, b) ==
    CASE kind = "get_fuel_prices" -> PostGetFuelPrices(b)
      [] kind = "get_fuel_prices_for_station" -> PostForStation(b)
      [] kind = "get_fuel_prices_within_radius" -> PostWithinRadius(b)
      [] OTHER -> PostReference(b)

\* the except clauses of a public operation: the client's own errors pass
\* unchanged, any other exception becomes NSWFuelApiClientError
NoCatchAllMut(exc) == exc

CatchAllFirstMut(exc) == IF exc = "ok" THEN "ok" ELSE "generic"

DomainWrap(exc) == IF exc = "raw" THEN "generic" ELSE exc

(***************************************************************************)
(* The typed results of the public operations                              *)
(***************************************************************************)
\* the list comprehensions: entry i of the result is built from entry i
DeserializeStations(seq) ==
    [i \in 1..Len(seq) |-> [src |-> i, code |-> StationDeserialize(seq[i]).code]]

DeserializePrices(seq) ==
    [i \in 1..Len(seq) |->
        [src |-> i, last_updated |-> PriceDeserialize(seq[i]).last_updated,
         has_station_code |-> PriceDeserialize(seq[i]).has_station_code,
         station_code |-> PriceDeserialize(seq[i]).station_code]]

\* the key under which the dict  stations  holds a station: the wire value
\* station["code"]  itself, a number or a string
StationKey(c) == c

\* stations.get(n)  for an int n: the index of the entry stored under the
\* key n (the last one written wins), 0 for None
LookupStation(ss, n) ==
    LET m == {i \in 1..Len(ss) : StationKey(ss[i].code) = IntCode(n)}
    IN  IF m = {} THEN 0 ELSE CHOOSE i \in m : \A k \in m : k <= i

\* the loop over prices_data from entry i on: a price that raises, has no
\* station_code or whose station is not found is skipped
RECURSIVE JoinFrom(_, _, _)
JoinFrom(ss, ps, i) ==
    IF i > Len(ps) THEN << >>
    ELSE LET pr == PriceDeserialize(ps[i])
             j == IF pr.ok /\ pr.has_station_code
                  THEN LookupStation(ss, pr.station_code) ELSE 0
         IN  (IF j > 0 THEN <<[price |-> i, station |-> j]>> ELSE << >>)
             \o JoinFrom(ss, ps, i + 1)

\* what a public operation gives its caller once _async_request returned b:
\* kind is "ok" or the error raised; stations, prices, joined the contents
NoDtoResult ==
    [kind |-> "none", stations |-> << >>, prices |-> << >>, joined |-> << >>]

OpResult(k, b) ==
    LET r == DomainWrap(Post(k, b))
    IN  IF r # "ok" THEN [NoDtoResult EXCEPT !.kind = r]
        ELSE CASE k = "get_fuel_prices" ->
                    [NoDtoResult EXCEPT !.kind = "ok",
                                        !.stations = DeserializeStations(b.stations),
                                        !.prices = DeserializePrices(b.prices)]
               [] k = "get_fuel_prices_for_station" ->
                    [NoDtoResult EXCEPT !.kind = "ok",
                                        !.prices = DeserializePrices(b.prices)]
               [] k = "get_fuel_prices_within_radius" ->
                    [NoDtoResult EXCEPT !.kind = "ok",
                                        !.joined = JoinFrom(b.stations, b.prices, 1)]
               [] OTHER -> [NoDtoResult EXCEPT !.kind = "ok"]

\* the decoded bodies the operations are applied to on their own
NullTime == [k |-> "null", ts |-> 0]
AbsentTime == [k |-> "absent", ts |-> 0]
GarbageTime == [k |-> "garbage", ts |-> 0]

DtoStationItems ==
    { StationItem(IntCode(1)), StationItem(IntCode(2)), StationItem(StrCode(1)),
      [code |-> IntCode(1), complete |-> FALSE] }

DtoPriceItems ==
    { PriceItem(IntCode(1), DmyTime(5)), PriceItem(IntCode(2), YmdTime(6)),
      PriceItem(StrCode(1), GarbageTime), PriceItem(AbsentCode, DmyTime(5)),
      PriceItem(IntCode(1), AbsentTime), PriceItem(IntCode(2), NullTime),
      PriceItem(NullCode, DmyTime(5)), PriceItem(WordCode, YmdTime(6)),
      [PriceItem(IntCode(1), DmyTime(5)) EXCEPT !.fueltype = FALSE] }

SeqsUpTo(S, n) == UNION {[1..k -> S] : k \in 0..n}

DtoBodies ==
    {PricesBody(TRUE, ss, TRUE, ps) :
        ss \in SeqsUpTo(DtoStationItems, MaxItems),
        ps \in SeqsUpTo(DtoPriceItems, MaxItems)}
    \cup {PricesBody(FALSE, << >>, TRUE, ps) : ps \in SeqsUpTo(DtoPriceItems, MaxItems)}
    \cup {PricesBody(TRUE, ss, FALSE, << >>) : ss \in SeqsUpTo(DtoStationItems, MaxItems)}
    \cup {RefBody(cols, ok) : cols \in SUBSET RefCollections, ok \in BOOLEAN}
    \cup {EmptyBody("null"), EmptyBody("text")}

\* the statuses and failures of the API endpoint in the model
Statuses == {200, 400, 401, 404, 408, 500, 503}

TransportFailures == {"clientError", "timeout"}

ApiResponses ==
    {[kind |-> "http", status |-> s, body |-> b] : s \in Statuses, b \in Bodies}
    \cup {[kind |-> t, status |-> 0, body |-> EmptyBody("null")] : t \in TransportFailures}

(***************************************************************************)
(* State                                                                   *)
(***************************************************************************)
VARIABLES
    now,          \* the clock, time.time()
    ticks,        \* how many times the clock has advanced
    token,        \* per instance: self._token
    tokenExpiry,  \* per instance: self._token_expiry
    inst,         \* per process: the instance it calls
    active,       \* the processes that call a client
    op,           \* per process: the public operation in progress
    acq,          \* per instance: the last exchange that cached a usable token
    dtoIn,        \* a decoded body handed to a public operation on its own
    dtoOp,        \* the operation applied to it, "none" before
    dtoOut        \* what that operation gave its caller

vars == <<now, ticks, token, tokenExpiry, inst, active, op, acq, dtoIn, dtoOp, dtoOut>>

dtoVars == <<dtoIn, dtoOp, dtoOut>>

clientVars == <<now, ticks, token, tokenExpiry, inst, active, op, acq>>

\* With more than one process the endpoints answer from fewer responses:
\* one of each class that the token cache or the retry tells apart.
ConcTokenResponses ==
    { [kind |-> "ok", access_token |-> "tokA", expires_in |-> [k |-> "int", v |-> 61]],
      [kind |-> "ok", access_token |-> "tokB", expires_in |-> [k |-> "absent", v |-> 0]],
      [kind |-> "ok", access_token |-> "tokA", expires_in |-> [k |-> "bad", v |-> 0]],
      [kind |-> "ok", access_token |-> "", expires_in |-> [k |-> "absent", v |-> 0]],
      [kind |-> "ok", access_token |-> NoneVal, expires_in |-> [k |-> "absent", v |-> 0]],
      [kind |-> "nonOsError", access_token |-> NoneVal, expires_in |-> [k |-> "absent", v |-> 0]] }

ConcApiResponses ==
    { [kind |-> "http", status |-> 200,
       body |-> PricesBody(TRUE, <<StationItem(IntCode(1))>>, TRUE,
                           <<PriceItem(IntCode(1), DmyTime(5))>>)],
      [kind |-> "http", status |-> HTTP_UNAUTHORIZED, body |-> EmptyBody("null")],
      [kind |-> "http", status |-> 503, body |-> EmptyBody("text")] }

ConcOpKinds == {"get_fuel_prices"}

Concurrent == Cardinality(active) > 1

TokenAnswers == IF Concurrent THEN ConcTokenResponses ELSE TokenResponses

ApiAnswers == IF Concurrent THEN ConcApiResponses ELSE ApiResponses

CalledKinds == IF Concurrent THEN ConcOpKinds ELSE OpKinds

ConcTickSteps == {60}

ElapsedSteps == IF Concurrent THEN ConcTickSteps ELSE TickSteps

\* self  in a call made by process p: the instance whose cache it uses
SharedCacheMut(p) == 1

CacheOf(p) == inst[p]

\* With two instances the token endpoint hands each its own token value, so
\* that a token can be told by the instance it was issued to.
InstanceToken(c) == IF c = 1 THEN "tokA" ELSE "tokB"

TokenAnswersFor(p) ==
    IF \E q \in active : inst[q] # inst[p]
    THEN {r \in ConcTokenResponses :
            r.access_token \in {NoneVal, "", InstanceToken(inst[p])}}
    ELSE TokenAnswers

\* what the properties keep of a failing response's body
ErrPart(b) == [form |-> b.form, ed |-> b.ed]

\* A process's operation.  pc is where it is suspended: "idle", the awaits
\* "await_token1" (token exchange before the first attempt), "await_api1"
\* (first attempt), "await_token2" (exchange after a 401), "await_api2"
\* (re-issued attempt), or "done".  kind, tnow (the  now  read by the last
\* _async_get_token), bearer (the Authorization token of headers) are the
\* coroutine's locals; the rest records what happened, for the properties.
IdleOp ==
    [pc |-> "idle", kind |-> "none", tnow |-> 0, bearer |-> NoneVal,
     retExpiry |-> 0,        \* self._token_expiry when the bearer was returned
     apiSent |-> 0,          \* requests sent to the API endpoint
     tokSent |-> 0,          \* requests sent to the token endpoint
     refreshes |-> 0,        \* of which after a 401
     txn1 |-> 0,             \* TransactionID of the first attempt (0: none sent)
     txn2 |-> 0,             \* TransactionID of the re-issued attempt
     lastTok |-> "none",     \* the last token response: its kind
     tokExc |-> "none",      \* what the last _async_get_token call raised
     exchTok |-> NoneVal,    \* access_token of the last token response
     status1 |-> 0,          \* status of the first attempt's response
     status2 |-> 0,          \* status of the re-issued attempt's response
     transport |-> 0,        \* the attempt (1, 2) whose HTTP call failed
     endBody |-> ErrPart(EmptyBody("null")),  \* of the response that failed the operation
     reqResult |-> [kind |-> "none", msg |-> NoMsg],   \* outcome of _async_request
     result |-> [kind |-> "none", msg |-> NoMsg]]      \* outcome for the caller

NoAcq ==
    [valid |-> FALSE, t0 |-> 0, E |-> 0, tok |-> NoneVal,
     raw |-> [k |-> "absent", v |-> 0]]

\* the kind of a token response, as the properties name it
TokKind(resp) ==
    IF resp.kind # "ok" THEN resp.kind
    ELSE IF resp.access_token = NoneVal THEN "missing"
    ELSE IF ~IntConvertible(resp.expires_in) THEN "badExpiry"
    ELSE IF resp.access_token = "" THEN "empty"
    ELSE "ok"

\* the record of an exchange answered  resp  that started at  t
AcqAfter(resp, t, old) ==
    CASE TokKind(resp) = "ok" ->
            [valid |-> TRUE, t0 |-> t, E |-> ExpiresInOf(resp.expires_in),
             tok |-> resp.access_token, raw |-> resp.expires_in]
      [] TokKind(resp) \in {"missing", "badExpiry", "empty"} -> NoAcq
      [] OTHER -> old

\* the state after the construction of the instances (__init__)
InitClients ==
    /\ now = 0
    /\ ticks = 0
    /\ token = [c \in Clients |-> NoneVal]
    /\ tokenExpiry = [c \in Clients |-> 0]
    /\ op = [p \in Procs |-> IdleOp]
    /\ acq = [c \in Clients |-> NoAcq]

\* no body is handed to an operation on its own
InitNoDto ==
    /\ dtoIn = EmptyBody("null")
    /\ dtoOp = "none"
    /\ dtoOut = NoDtoResult

\* one process calling one instance, one operation after the other
Init ==
    /\ InitClients
    /\ InitNoDto
    /\ active = {1}
    /\ inst = [p \in Procs |-> 1]

\* TransactionID values are named by the uuid.uuid4() call of the operation
\* that made them (1 for its first call); calls of different operations
\* give different values.  The headers dict is built once, with one call.
NewTransactionId == 1

\* the TransactionID of the re-issued request: headers is the dict of the
\* first attempt, with only Authorization replaced
RetryTransactionId(txn) == txn

\* if not token: the test of what _async_get_token returned
TokenNotNoneMut(tok) == tok # NoneVal

TokenUsable(tok) == Truthy(tok)

\* _async_request raises or returns: the public operation's except clauses
\* decide what the caller sees
Finished(o, kind, msg) ==
    [o EXCEPT !.pc = "done",
              !.reqResult = [kind |-> kind, msg |-> msg],
              !.result = [kind |-> DomainWrap(kind), msg |-> msg]]

\* _async_request returned the body  b: validation and deserialization
Returned(o, b) ==
    LET r == Post(o.kind, b)
    IN  [o EXCEPT !.pc = "done",
                  !.reqResult = [kind |-> "ok", msg |-> NoMsg],
                  !.result = [kind |-> DomainWrap(r),
                              msg |-> IF r = "ok" THEN NoMsg ELSE FixedMsg]]

(***************************************************************************)
(* Actions                                                                 *)
(***************************************************************************)
\* time passes (a caller holding its result goes on at once)
Tick ==
    /\ ticks < MaxTicks
    /\ \A p \in Procs : op[p].pc # "done"
    /\ \E d \in ElapsedSteps : now' = now + d
    /\ ticks' = ticks + 1
    /\ UNCHANGED <<token, tokenExpiry, inst, active, op, acq>>
    /\ UNCHANGED dtoVars

\* A public operation is called: _async_request calls _async_get_token,
\* which returns the cached token (and the first attempt is sent) or sends
\* the token exchange.
Start(p) ==
    /\ p \in active
    /\ op[p].pc = "idle"
    /\ \E k \in CalledKinds :
        LET c == CacheOf(p)
            o == [op[p] EXCEPT !.kind = k, !.tnow = now]
        IN  IF CacheValid(token[c], tokenExpiry[c], now)
            THEN op' = [op EXCEPT ![p] =
                        [o EXCEPT !.pc = "await_api1", !.bearer = token[c],
                                  !.retExpiry = tokenExpiry[c],
                                  !.apiSent = 1, !.txn1 = NewTransactionId]]
            ELSE op' = [op EXCEPT ![p] =
                        [o EXCEPT !.pc = "await_token1", !.tokSent = 1]]
    /\ UNCHANGED <<now, ticks, token, tokenExpiry, inst, active, acq>>
    /\ UNCHANGED dtoVars

\* The token endpoint answers the exchange made before the first attempt.
\* An exception leaves _async_request as it is (the call is outside the try).
TokenResponse1(p) ==
    /\ op[p].pc = "await_token1"
    /\ \E resp \in TokenAnswersFor(p) :
        LET c == CacheOf(p)
            x == Exchange(resp, token[c], tokenExpiry[c], op[p].tnow)
            o == [op[p] EXCEPT !.lastTok = TokKind(resp), !.tokExc = x.exc,
                               !.exchTok = resp.access_token]
        IN  /\ token' = [token EXCEPT ![c] = x.token]
            /\ tokenExpiry' = [tokenExpiry EXCEPT ![c] = x.expiry]
            /\ acq' = [acq EXCEPT ![c] = AcqAfter(resp, op[p].tnow, @)]
            /\ op' = [op EXCEPT ![p] =
                 IF x.exc # "none" THEN Finished(o, x.exc, FixedMsg)
                 ELSE IF ~TokenUsable(x.ret) THEN Finished(o, "generic", FixedMsg)
                 ELSE [o EXCEPT !.pc = "await_api1", !.bearer = x.ret,
                                !.retExpiry = x.expiry, !.apiSent = 1,
                                !.txn1 = NewTransactionId]]
    /\ UNCHANGED <<now, ticks, inst, active>>
    /\ UNCHANGED dtoVars

\* The API endpoint answers the first attempt (or the HTTP call fails).
ApiResponse1(p) ==
    /\ op[p].pc = "await_api1"
    /\ \E r \in ApiAnswers :
        IF r.kind # "http"
        THEN /\ op' = [op EXCEPT ![p] =
                  LET e == TransportError(r.kind)
                  IN  Finished([op[p] EXCEPT !.transport = 1], e.kind, e.msg)]
             /\ UNCHANGED <<token, tokenExpiry, acq>>
        ELSE LET o == [op[p] EXCEPT !.status1 = r.status]
                 c == CacheOf(p) IN
          IF ShouldRefresh(r.status)
          THEN LET tok == InvalidateOn401(token[c]) IN
               /\ token' = [token EXCEPT ![c] = tok]
               /\ tokenExpiry' = tokenExpiry
               /\ acq' = IF tok = token[c] THEN acq ELSE [acq EXCEPT ![c] = NoAcq]
               /\ op' = [op EXCEPT ![p] =
                    IF CacheValid(tok, tokenExpiry[c], now)
                    THEN [o EXCEPT !.pc = "await_api2", !.tnow = now, !.bearer = tok,
                                   !.retExpiry = tokenExpiry[c],
                                   !.apiSent = @ + 1,
                                   !.txn2 = RetryTransactionId(o.txn1)]
                    ELSE [o EXCEPT !.pc = "await_token2", !.tnow = now,
                                   !.tokSent = @ + 1, !.refreshes = @ + 1]]
          ELSE /\ op' = [op EXCEPT ![p] =
                    IF r.status >= HTTP_CLIENT_SERVER_ERROR
                    THEN LET e == FirstAttemptError(r.status, r.body)
                         IN  Finished([o EXCEPT !.endBody = ErrPart(r.body)], e.kind, e.msg)
                    ELSE Returned(o, r.body)]
               /\ UNCHANGED <<token, tokenExpiry, acq>>
    /\ UNCHANGED <<now, ticks, inst, active>>
    /\ UNCHANGED dtoVars

\* The token endpoint answers the exchange made after a 401 (inside the try).
TokenResponse2(p) ==
    /\ op[p].pc = "await_token2"
    /\ \E resp \in TokenAnswersFor(p) :
        LET c == CacheOf(p)
            x == Exchange(resp, token[c], tokenExpiry[c], op[p].tnow)
            o == [op[p] EXCEPT !.lastTok = TokKind(resp), !.tokExc = x.exc,
                               !.exchTok = resp.access_token]
        IN  /\ token' = [token EXCEPT ![c] = x.token]
            /\ tokenExpiry' = [tokenExpiry EXCEPT ![c] = x.expiry]
            /\ acq' = [acq EXCEPT ![c] = AcqAfter(resp, op[p].tnow, @)]
            /\ op' = [op EXCEPT ![p] =
                 IF x.exc # "none" THEN Finished(o, InTry(x.exc), FixedMsg)
                 ELSE IF ~TokenUsable(x.ret) THEN Finished(o, "auth", FixedMsg)
                 ELSE [o EXCEPT !.pc = "await_api2", !.bearer = x.ret,
                                !.retExpiry = x.expiry, !.apiSent = @ + 1,
                                !.txn2 = RetryTransactionId(o.txn1)]]
    /\ UNCHANGED <<now, ticks, inst, active>>
    /\ UNCHANGED dtoVars

\* The API endpoint answers the re-issued attempt (or the HTTP call fails).
ApiResponse2(p) ==
    /\ op[p].pc = "await_api2"
    /\ \E r \in ApiAnswers :
        op' = [op EXCEPT ![p] =
            IF r.kind # "http"
            THEN LET e == TransportError(r.kind)
                 IN  Finished([op[p] EXCEPT !.transport = 2], e.kind, e.msg)
            ELSE LET o == [op[p] EXCEPT !.status2 = r.status] IN
                 IF r.status >= HTTP_CLIENT_SERVER_ERROR
                 THEN LET e == RetryError(r.status, r.body)
                      IN  Finished([o EXCEPT !.endBody = ErrPart(r.body)], e.kind, e.msg)
                 ELSE Returned(o, r.body)]
    /\ UNCHANGED <<now, ticks, token, tokenExpiry, inst, active, acq>>
    /\ UNCHANGED dtoVars

\* the caller has its result; the process may call again
Reset(p) ==
    /\ op[p].pc = "done"
    /\ op' = [op EXCEPT ![p] = IdleOp]
    /\ UNCHANGED <<now, ticks, token, tokenExpiry, inst, active, acq>>
    /\ UNCHANGED dtoVars

Next ==
    \/ Tick
    \/ \E p \in Procs : Start(p)
    \/ \E p \in Procs : TokenResponse1(p)
    \/ \E p \in Procs : ApiResponse1(p)
    \/ \E p \in Procs : TokenResponse2(p)
    \/ \E p \in Procs : ApiResponse2(p)
    \/ \E p \in Procs : Reset(p)

Spec == Init /\ [][Next]_vars

(***************************************************************************)
(* Two operations in flight on one instance                                *)
(***************************************************************************)
InitConc ==
    /\ InitClients
    /\ InitNoDto
    /\ active = {1, 2}
    /\ inst = [p \in Procs |-> 1]

SpecConc == InitConc /\ [][Next]_vars

(***************************************************************************)
(* Two instances, one process calling each                                 *)
(***************************************************************************)
InitInstances ==
    /\ InitClients
    /\ InitNoDto
    /\ active = {1, 2}
    /\ inst = [p \in Procs |-> p]

SpecInstances == InitInstances /\ [][Next]_vars

\* the HTTP call the operation of p is suspended at returns or fails
HttpCallEnds(p) ==
    TokenResponse1(p) \/ ApiResponse1(p) \/ TokenResponse2(p) \/ ApiResponse2(p)

\* as long as an operation's HTTP call is pending, the step that receives
\* its response is eventually taken (the event loop resumes every coroutine
\* whose call has completed)
SpecLive == InitInstances /\ [][Next]_vars /\ \A p \in Procs : WF_vars(HttpCallEnds(p))

(***************************************************************************)
(* The public operations applied to a decoded body on their own            *)
(***************************************************************************)
InitDto ==
    /\ InitClients
    /\ active = {}
    /\ inst = [p \in Procs |-> 1]
    /\ dtoIn \in DtoBodies
    /\ dtoOp = "none"
    /\ dtoOut = NoDtoResult

\* the operation k validates and deserializes the body _async_request returned
Respond(k) ==
    /\ dtoOp = "none"
    /\ dtoOp' = k
    /\ dtoOut' = OpResult(k, dtoIn)
    /\ UNCHANGED <<dtoIn, clientVars>>

NextDto == \E k \in OpKinds : Respond(k)

SpecDto == InitDto /\ [][NextDto]_vars

(***************************************************************************)
(* Properties                                                              *)
(***************************************************************************)
\* the status of the API response that ended the operation, 0 if none did
EndStatus(o) ==
    IF o.status2 # 0 THEN o.status2
    ELSE IF o.status1 # HTTP_UNAUTHORIZED THEN o.status1 ELSE 0

\* C1: after an exchange at t0 that cached a usable token with expires_in = E,
\* an operation called at t with t - t0 < E - 60, no 401 or later exchange
\* having touched the cache, sends its first attempt at once with the cached
\* token, sends nothing to the token endpoint and leaves the cache as it is.
TokenReuse ==
    [][\A p \in Procs :
        (/\ op[p].pc = "idle"
         /\ op'[p].pc # "idle"
         /\ acq[inst[p]].valid
         /\ now - acq[inst[p]].t0 < acq[inst[p]].E - EXPIRY_MARGIN)
        => (/\ op'[p].pc = "await_api1"
            /\ op'[p].tokSent = 0
            /\ op'[p].bearer = acq[inst[p]].tok
            /\ token' = token
            /\ tokenExpiry' = tokenExpiry)]_vars

\* C1 witness: a first attempt in flight that reused, at a later time, the
\* token of an earlier exchange
TokenReuseWitness ==
    /\ op[1].pc = "await_api1"
    /\ op[1].tokSent = 0
    /\ acq[1].valid
    /\ op[1].tnow > acq[1].t0
    /\ op[1].tnow - acq[1].t0 < acq[1].E - EXPIRY_MARGIN
    /\ op[1].bearer = acq[1].tok

\* C2: the token of every API request in flight satisfied now < expiry - 60
\* when _async_get_token returned it (now: the time that call read, expiry:
\* the cached expiry at its return).
ExpiryMargin ==
    \A p \in Procs :
        op[p].pc \in {"await_api1", "await_api2"}
        => op[p].tnow < op[p].retExpiry - EXPIRY_MARGIN

\* C3: once the first attempt was answered 401, exactly one token exchange
\* follows; a re-issued request exists only after that exchange gave a token
\* and carries that token; when the exchange gave a token the request is
\* re-issued exactly once; a second 401 ends the operation with
\* NSWFuelApiClientAuthError after two API requests.
RetryOnce ==
    \A p \in Procs :
        op[p].status1 = HTTP_UNAUTHORIZED
        => /\ op[p].refreshes = 1
           /\ op[p].apiSent <= 2
           /\ (op[p].pc = "await_api2" \/ op[p].status2 # 0 \/ op[p].transport = 2)
              => (/\ op[p].apiSent = 2
                  /\ op[p].lastTok = "ok"
                  /\ op[p].bearer = op[p].exchTok)
           /\ (op[p].pc = "done" /\ op[p].lastTok = "ok") => op[p].apiSent = 2
           /\ op[p].status2 = HTTP_UNAUTHORIZED
              => (/\ op[p].pc = "done"
                  /\ op[p].result.kind = "auth"
                  /\ op[p].apiSent = 2)

\* C3 witness: a second 401, answered to a request that carried a token
\* other than the one the first attempt carried
RetryOnceWitness ==
    /\ op[1].pc = "done"
    /\ op[1].status1 = HTTP_UNAUTHORIZED
    /\ op[1].status2 = HTTP_UNAUTHORIZED
    /\ op[1].tokSent = 2
    /\ op[1].bearer = "tokB"
    /\ op[1].result.kind = "auth"

\* C4: an operation whose first attempt was answered 408 ends after exactly
\* two API requests, and if it fails, with the connection-kind error.
Retry408 ==
    \A p \in Procs :
        (op[p].pc = "done" /\ op[p].status1 = HTTP_TIMEOUT_ERROR)
        => (/\ op[p].apiSent = 2
            /\ op[p].result.kind \in {"ok", "connection"})

\* C5: when a token response has no access_token the operation fails with
\* NSWFuelApiClientError, no API request follows the exchange (none at all
\* when it was the initial exchange), and the cache holds no token.
MissingAccessToken ==
    \A p \in Procs :
        (op[p].pc = "done" /\ op[p].lastTok = "missing")
        => (/\ op[p].result.kind = "generic"
            /\ token[inst[p]] = NoneVal
            /\ op[p].apiSent = IF op[p].status1 = HTTP_UNAUTHORIZED THEN 1 ELSE 0)

\* C5 witness: the initial exchange of an operation, made because the cached
\* token had expired, was answered without access_token
MissingAccessTokenWitness ==
    /\ op[1].pc = "done"
    /\ op[1].lastTok = "missing"
    /\ op[1].apiSent = 0
    /\ tokenExpiry[1] > 0
    /\ op[1].tnow > tokenExpiry[1] - EXPIRY_MARGIN
    /\ token[1] = NoneVal

\* C6: an operation ended by an API response of status >= 500, on the first
\* or the re-issued attempt, fails with NSWFuelApiClientConnectionError.
ServerErrorIsConnection ==
    \A p \in Procs :
        (op[p].pc = "done" /\ EndStatus(op[p]) >= HTTP_INTERNAL_SERVER_ERROR)
        => op[p].result.kind = "connection"

\* C7: an operation ended by a transport-level failure of an API request
\* fails with NSWFuelApiClientConnectionError.
TransportIsConnection ==
    \A p \in Procs :
        (op[p].pc = "done" /\ op[p].transport # 0)
        => op[p].result.kind = "connection"

\* the statuses 400..499 other than 401 and 408
Other4xx(s) ==
    /\ s >= HTTP_CLIENT_SERVER_ERROR
    /\ s < HTTP_INTERNAL_SERVER_ERROR
    /\ s \notin {HTTP_UNAUTHORIZED, HTTP_TIMEOUT_ERROR}

\* C8: an API response with a status in 400..499 other than 401 and 408 ends
\* the operation with the generic NSWFuelApiClientError; no request, to the
\* API or to the token endpoint, follows it.
Other4xxGeneric ==
    \A p \in Procs :
        /\ Other4xx(op[p].status1)
           => (/\ op[p].pc = "done"
               /\ op[p].result.kind = "generic"
               /\ op[p].apiSent = 1
               /\ op[p].refreshes = 0
               /\ op[p].status2 = 0)
        /\ Other4xx(op[p].status2)
           => (/\ op[p].pc = "done"
               /\ op[p].result.kind = "generic"
               /\ op[p].apiSent = 2
               /\ op[p].refreshes = 1)

\* C8 witness: a 404 on the first attempt, sent with a token exchanged by
\* this operation, whose body's errorDetails entries are no objects
Other4xxGenericWitness ==
    /\ op[1].pc = "done"
    /\ op[1].status1 = 404
    /\ op[1].tokSent = 1
    /\ op[1].endBody.ed.shape = "listNonObj"
    /\ op[1].result.kind = "generic"

\* the message the errorDetails of a body carry: description or message of
\* the first entry of a list, or of an object; NoneVal when there is none
DetailsOf(b) ==
    IF b.form = "dict" /\ b.ed.shape \in {"list", "object"}
    THEN PyOr(b.ed.description, b.ed.message)
    ELSE NoneVal

\* C9: when an API response of status >= 400 ends the operation, the error's
\* message is the description/message of the body's errorDetails if there is
\* one, and otherwise holds the HTTP reason phrase.
ErrorMessage ==
    \A p \in Procs :
        (op[p].pc = "done" /\ EndStatus(op[p]) >= HTTP_CLIENT_SERVER_ERROR)
        => IF Truthy(DetailsOf(op[p].endBody))
           THEN op[p].result.msg = DetailsMsg(DetailsOf(op[p].endBody))
           ELSE op[p].result.msg = ReasonMsg

\* C10: the caller of a public operation gets a typed result or one of the
\* three error classes, never an exception of another type.
TypedErrorsOnly ==
    \A p \in Procs :
        op[p].pc = "done"
        => (/\ op[p].kind \in OpKinds
            /\ op[p].result.kind \in {"ok", "generic", "auth", "connection"})

\* C10 witness: _async_request let an exception of another type out (raised
\* by the token call before its try block) and the caller got
\* NSWFuelApiClientError
TypedErrorsOnlyWitness ==
    /\ op[1].pc = "done"
    /\ op[1].reqResult.kind = "raw"
    /\ op[1].result.kind = "generic"

\* C11: _async_get_token fails with NSWFuelApiClientAuthError exactly when the
\* token endpoint answers 401, with NSWFuelApiClientError for every other
\* failure of the token endpoint (another status, a body that is not JSON, any
\* transport failure), and raises nothing else.
TokenErrorClasses ==
    \A p \in Procs :
        op[p].lastTok # "none"
        => (/\ op[p].tokExc \in {"none", "auth", "generic"}
            /\ (op[p].tokExc = "auth") <=> (op[p].lastTok = "http401")
            /\ op[p].lastTok \in {"httpOther", "notJson", "osError", "nonOsError"}
               => op[p].tokExc = "generic")

\* the stations of the body b whose deserialized code is that of price i
MatchingStations(b, i) ==
    {j \in 1..Len(b.stations) :
        StationDeserialize(b.stations[j]).code = PriceDeserialize(b.prices[i]).station_code}

\* every entry deserializes and every price has the code of exactly one station
EveryPriceMatchesOne(b) ==
    /\ HasKey(b, "stations") /\ HasKey(b, "prices")
    /\ b.stations # << >> /\ b.prices # << >>
    /\ AllStationsOk(b.stations) /\ AllPricesOk(b.prices)
    /\ \A i \in 1..Len(b.prices) :
          /\ PriceDeserialize(b.prices[i]).has_station_code
          /\ Cardinality(MatchingStations(b, i)) = 1

\* C12: join completeness of get_fuel_prices_within_radius: when both lists
\* are non-empty and every price's station code equals, as integers, the code
\* of exactly one station, the result has one entry per price, in price order,
\* entry i pairing price i with that station, whether the wire codes are
\* numbers or numeric strings.
JoinComplete ==
    (dtoOp = "get_fuel_prices_within_radius" /\ EveryPriceMatchesOne(dtoIn))
    => (/\ dtoOut.kind = "ok"
        /\ Len(dtoOut.joined) = Len(dtoIn.prices)
        /\ \A i \in 1..Len(dtoOut.joined) :
              /\ dtoOut.joined[i].price = i
              /\ dtoOut.joined[i].station \in MatchingStations(dtoIn, i))

\* the prices of b that deserialize, carry a station code and have a station
\* of that code in the response
RemainingPrices(b) ==
    {i \in 1..Len(b.prices) :
        /\ PriceDeserialize(b.prices[i]).ok
        /\ PriceDeserialize(b.prices[i]).has_station_code
        /\ MatchingStations(b, i) # {}}

\* C13: join filtering of get_fuel_prices_within_radius: a price without a
\* station code, with a code no station has, or that fails to deserialize is
\* left out and never fails the operation; the result is exactly the other
\* prices, in their order, each paired with its station.
JoinFiltering ==
    (/\ dtoOp = "get_fuel_prices_within_radius"
     /\ HasKey(dtoIn, "stations") /\ HasKey(dtoIn, "prices")
     /\ dtoIn.stations # << >> /\ dtoIn.prices # << >>
     /\ AllStationsOk(dtoIn.stations))
    => (/\ dtoOut.kind = "ok"
        /\ {dtoOut.joined[n].price : n \in 1..Len(dtoOut.joined)} = RemainingPrices(dtoIn)
        /\ \A n \in 1..Len(dtoOut.joined) :
              /\ dtoOut.joined[n].station \in MatchingStations(dtoIn, dtoOut.joined[n].price)
              /\ \A m \in 1..Len(dtoOut.joined) :
                    m < n => dtoOut.joined[m].price < dtoOut.joined[n].price)

\* the same, on the responses whose station codes are all JSON numbers
JoinFilteringNumericCodes ==
    (\A j \in 1..Len(dtoIn.stations) : dtoIn.stations[j].code.k = "int")
    => JoinFiltering

\* C14: 401 invalidation: when an API request, the first attempt or the
\* re-issued one, is answered 401, the token it carried is not in the client's
\* cache when the operation ends; after a second 401 the cache does not hold
\* the token just rejected.  (For a first 401 whose refresh failed, the case
\* of a token endpoint handing out the rejected value again is left aside.)
Invalidated401 ==
    \A p \in Procs :
        op[p].pc = "done"
        => (/\ op[p].status2 = HTTP_UNAUTHORIZED
               => token[inst[p]] # op[p].bearer
            /\ (op[p].status1 = HTTP_UNAUTHORIZED /\ op[p].apiSent = 1
                /\ op[p].exchTok # op[p].bearer)
               => token[inst[p]] # op[p].bearer)

\* the step an operation suspended at an await point takes next is enabled
\* whatever the other operations are doing
NoWaiting ==
    \A p \in active :
        /\ op[p].pc = "idle" => ENABLED Start(p)
        /\ op[p].pc = "await_token1" => ENABLED TokenResponse1(p)
        /\ op[p].pc = "await_api1" => ENABLED ApiResponse1(p)
        /\ op[p].pc = "await_token2" => ENABLED TokenResponse2(p)
        /\ op[p].pc = "await_api2" => ENABLED ApiResponse2(p)
        /\ op[p].pc = "done" => ENABLED Reset(p)

\* an operation that ended has a result or one of the three error kinds
TypedEnd ==
    \A p \in active :
        op[p].pc = "done" => op[p].result.kind \in {"ok", "generic", "auth", "connection"}

\* a request sent to the API endpoint carries a non-empty token: the one in
\* the cache, or the access_token of the exchange that just completed
SentTokenFromExchange ==
    \A p \in Procs :
        op'[p].apiSent > op[p].apiSent
        => (/\ Truthy(op'[p].bearer)
            /\ \/ op[p].pc = "idle" /\ op'[p].bearer = token[inst[p]]
               \/ (/\ op[p].pc \in {"await_token1", "await_token2"}
                   /\ op'[p].bearer = op'[p].exchTok))

\* a token enters a cache only as the access_token of a completed exchange
\* made through that instance
CachedTokenFromExchange ==
    \A c \in Clients :
        (token'[c] # token[c] /\ token'[c] # NoneVal)
        => \E p \in Procs :
              /\ inst[p] = c
              /\ op[p].pc \in {"await_token1", "await_token2"}
              /\ op'[p].pc # op[p].pc
              /\ op'[p].exchTok = token'[c]

\* C15: with two operations in flight on one client, in every interleaving
\* at the await points no operation waits for another, every operation ends
\* with a result or one of the three error kinds, and every API request sent
\* carries a non-empty token returned by a completed token exchange.
ConcurrentOperations ==
    /\ [](NoWaiting /\ TypedEnd)
    /\ [][SentTokenFromExchange /\ CachedTokenFromExchange]_vars

\* both operations made their own token exchange, one overtaking the other,
\* and both ended with a result
ConcurrentOperationsWitness ==
    /\ active = {1, 2}
    /\ \A p \in Procs :
          /\ op[p].pc = "done"
          /\ op[p].tokSent = 1
          /\ op[p].apiSent = 1
          /\ op[p].result.kind = "ok"
    /\ op[1].bearer # op[2].bearer

\* a step of a call made through one instance leaves the cached token and
\* expiry of every other instance as they were
OtherCachesUnchanged ==
    \A p \in Procs :
        op'[p] # op[p]
        => \A c \in Clients \ {inst[p]} :
              token'[c] = token[c] /\ tokenExpiry'[c] = tokenExpiry[c]

\* no instance caches, and no call sends, a token issued to another instance
OwnTokensOnly ==
    \A p \in active : \A q \in active :
        inst[q] # inst[p]
        => (/\ token[inst[p]] # InstanceToken(inst[q])
            /\ op[p].bearer # InstanceToken(inst[q]))

\* C16: token caches are per client instance: an exchange, a 401
\* invalidation or a missing-access_token clear made through one instance
\* never changes the cached token or expiry of another, and an instance never
\* sends a token obtained by another.
InstanceIsolation ==
    /\ []OwnTokensOnly
    /\ [][OtherCachesUnchanged]_vars

\* instance 1 has exchanged, been answered 401 and cleared its token while
\* instance 2 still holds and sends its own
InstanceIsolationWitness ==
    /\ inst[1] = 1 /\ inst[2] = 2
    /\ op[1].status1 = HTTP_UNAUTHORIZED
    /\ op[1].pc = "await_token2"
    /\ token[1] = NoneVal
    /\ tokenExpiry[1] > 0
    /\ token[2] = "tokB"
    /\ op[2].pc = "await_api1"
    /\ op[2].bearer = "tokB"

\* the result of get_fuel_prices holds one Station per stations entry and one
\* Price per prices entry of b, in input order, and nothing joined
OneTypedEntryPerInput(b, out) ==
    /\ out.kind = "ok"
    /\ Len(out.stations) = Len(b.stations)
    /\ Len(out.prices) = Len(b.prices)
    /\ \A i \in 1..Len(out.stations) :
          out.stations[i].src = i /\ out.stations[i].code = b.stations[i].code.v
    /\ \A i \in 1..Len(out.prices) :
          /\ out.prices[i].src = i
          /\ out.prices[i].has_station_code = (b.prices[i].stationcode.k # "absent")
          /\ out.prices[i].has_station_code
             => out.prices[i].station_code = b.prices[i].stationcode.v
    /\ out.joined = << >>

\* the body is empty or lacks the prices key or the stations key
EmptyOrKeyMissing(b) ==
    ~BodyTruthy(b) \/ ~HasKey(b, "prices") \/ ~HasKey(b, "stations")

\* C17 as stated: get_fuel_prices fails with NSWFuelApiClientError when the
\* body is empty or lacks prices or stations, and otherwise returns one
\* Station per stations entry and one Price per prices entry in input order.
\* (Prices whose lastupdated is absent or null are left aside here.)
GetFuelPricesReturnsOtherwise ==
    (/\ dtoOp = "get_fuel_prices"
     /\ \A i \in 1..Len(dtoIn.prices) :
           dtoIn.prices[i].lastupdated.k \in {"dmy", "ymd", "garbage"})
    => IF EmptyOrKeyMissing(dtoIn)
       THEN dtoOut.kind = "generic"
       ELSE OneTypedEntryPerInput(dtoIn, dtoOut)

\* C17, amended: get_fuel_prices fails with NSWFuelApiClientError when the
\* body is empty, lacks prices or stations, or holds an entry that
\* Station.deserialize or Price.deserialize rejects; otherwise it returns one
\* Station per stations entry and one Price per prices entry, in input order
\* and not joined, also when a list is empty.
GetFuelPricesContract ==
    dtoOp = "get_fuel_prices"
    => IF EmptyOrKeyMissing(dtoIn)
          \/ ~AllStationsOk(dtoIn.stations) \/ ~AllPricesOk(dtoIn.prices)
       THEN dtoOut.kind = "generic"
       ELSE OneTypedEntryPerInput(dtoIn, dtoOut)

\* a body with two stations and an empty prices list gave a typed result
GetFuelPricesContractWitness ==
    /\ dtoOp = "get_fuel_prices"
    /\ Len(dtoIn.stations) = 2
    /\ HasKey(dtoIn, "prices") /\ dtoIn.prices = << >>
    /\ dtoIn.stations[1].code = StrCode(1)
    /\ dtoOut.kind = "ok"
    /\ Len(dtoOut.stations) = 2
    /\ dtoOut.prices = << >>

\* the list under key is absent from b or empty
AbsentOrEmpty(b, key) ==
    \/ ~HasKey(b, key)
    \/ (IF key = "prices" THEN b.prices ELSE b.stations) = << >>

\* C18: required-field validation: get_fuel_prices_for_station fails with
\* NSWFuelApiClientError when prices is absent or empty,
\* get_fuel_prices_within_radius when stations or prices is absent or empty,
\* get_reference_data when the body is empty or one of its sub-collections
\* is absent; no typed result is returned then.
RequiredFields ==
    /\ (dtoOp = "get_fuel_prices_for_station" /\ AbsentOrEmpty(dtoIn, "prices"))
       => dtoOut = [NoDtoResult EXCEPT !.kind = "generic"]
    /\ (/\ dtoOp = "get_fuel_prices_within_radius"
        /\ AbsentOrEmpty(dtoIn, "stations") \/ AbsentOrEmpty(dtoIn, "prices"))
       => dtoOut = [NoDtoResult EXCEPT !.kind = "generic"]
    /\ (/\ dtoOp = "get_reference_data"
        /\ ~BodyTruthy(dtoIn) \/ dtoIn.ref # RefCollections)
       => dtoOut = [NoDtoResult EXCEPT !.kind = "generic"]

\* get_reference_data was given a body without sortfields and failed
RequiredFieldsWitness ==
    /\ dtoOp = "get_reference_data"
    /\ dtoIn.ref = RefCollections \ {"sortfields"}
    /\ dtoIn.refItemsOk
    /\ dtoOut.kind = "generic"

\* C19: Price.deserialize never fails because of lastupdated: a value in one
\* of the two formats yields that timestamp, every other case (unparseable
\* string, null, field absent) yields last_updated = None with the Price
\* still built; get_fuel_prices_for_station does not fail on such a price.
LastUpdatedNeverFails ==
    (/\ dtoOp = "get_fuel_prices_for_station"
     /\ HasKey(dtoIn, "prices") /\ dtoIn.prices # << >>
     /\ \A i \in 1..Len(dtoIn.prices) :
           dtoIn.prices[i].fueltype /\ dtoIn.prices[i].price)
    => (/\ dtoOut.kind = "ok"
        /\ Len(dtoOut.prices) = Len(dtoIn.prices)
        /\ \A i \in 1..Len(dtoOut.prices) :
              dtoOut.prices[i].last_updated =
                 IF dtoIn.prices[i].lastupdated.k \in {"dmy", "ymd"}
                 THEN dtoIn.prices[i].lastupdated.ts ELSE -1)

\* the operation of process p is suspended at one of its HTTP calls
InFlight(p) ==
    op[p].pc \in {"await_token1", "await_api1", "await_token2", "await_api2"}

\* at most two requests to each endpoint, the second API request only after
\* a 401 on the first
RequestBudget ==
    \A p \in Procs :
        /\ op[p].apiSent <= 2
        /\ op[p].tokSent <= 2
        /\ op[p].apiSent = 2 => op[p].status1 = HTTP_UNAUTHORIZED

\* C20: bounded work: given that each HTTP call returns or fails, every
\* public operation terminates, after at most two requests to the API
\* endpoint and at most two to the token endpoint; a second API request is
\* sent only after a 401 on the first.
BoundedWork ==
    /\ []RequestBudget
    /\ \A p \in Procs : InFlight(p) ~> (op[p].pc = "done")

\* an operation ended having used the whole budget: two token exchanges and
\* two API requests
BoundedWorkWitness ==
    /\ op[1].pc = "done"
    /\ op[1].tokSent = 2
    /\ op[1].apiSent = 2
    /\ op[1].status1 = HTTP_UNAUTHORIZED
    /\ op[1].status2 = 200
    /\ op[1].result.kind = "ok"

\* the step is the answer to a token exchange made through instance c
ExchangeAnswered(c) ==
    \E p \in Procs :
        /\ inst[p] = c
        /\ op[p].pc \in {"await_token1", "await_token2"}
        /\ op'[p].pc # op[p].pc

\* the step is a 401 answer to a first attempt made through instance c
FirstAttempt401(c) ==
    \E p \in Procs :
        /\ inst[p] = c
        /\ op[p].pc = "await_api1"
        /\ op'[p].status1 = HTTP_UNAUTHORIZED

\* the step is p receiving an API response other than a 401 on the first
\* attempt, or the HTTP call failing, with the validation and
\* deserialization that follow
OtherApiOutcome(p) ==
    /\ op[p].pc \in {"await_api1", "await_api2"}
    /\ op'[p].pc # op[p].pc
    /\ ~(op[p].pc = "await_api1" /\ op'[p].status1 = HTTP_UNAUTHORIZED)

\* C21: token cache frame: the cached token and expiry are written only by
\* _async_get_token on a performed exchange and by the 401 branch of
\* _async_request; any other API response, a transport failure of the API
\* request, validation and deserialization leave them unchanged.
CacheFrame ==
    [][/\ \A c \in Clients :
             (token'[c] # token[c] \/ tokenExpiry'[c] # tokenExpiry[c])
             => (ExchangeAnswered(c) \/ FirstAttempt401(c))
       /\ \A p \in Procs :
             OtherApiOutcome(p)
             => (/\ token'[inst[p]] = token[inst[p]]
                 /\ tokenExpiry'[inst[p]] = tokenExpiry[inst[p]])]_vars

\* a first attempt was answered 503 and the token it carried is still cached
CacheFrameWitness ==
    /\ op[1].pc = "done"
    /\ op[1].status1 = 503
    /\ op[1].apiSent = 1
    /\ op[1].result.kind = "connection"
    /\ Truthy(token[1])
    /\ token[1] = op[1].bearer
    /\ tokenExpiry[1] = op[1].retExpiry

\* the only token exchange of p's operation, made before the first attempt,
\* failed or gave no usable token
InitialExchangeFailed(p) ==
    /\ op[p].pc = "done"
    /\ op[p].tokSent = 1
    /\ op[p].refreshes = 0
    /\ op[p].lastTok # "ok"

\* C22: no API request without a token: when the initial token exchange
\* fails or yields no usable (non-empty) token, the operation fails with
\* NSWFuelApiClientError (its NSWFuelApiClientAuthError subclass when the
\* token endpoint answered 401) and sends no API request; every API request
\* sent carries a non-empty bearer token.
NoRequestWithoutToken ==
    \A p \in Procs :
        /\ InitialExchangeFailed(p)
           => (/\ op[p].apiSent = 0
               /\ op[p].result.kind \in {"generic", "auth"}
               /\ (op[p].result.kind = "auth") <=> (op[p].lastTok = "http401"))
        /\ op[p].apiSent > 0 => Truthy(op[p].bearer)

\* the initial exchange answered with an empty access_token: the operation
\* failed and nothing was sent to the API endpoint
NoRequestWithoutTokenWitness ==
    /\ InitialExchangeFailed(1)
    /\ op[1].lastTok = "empty"
    /\ op[1].exchTok = ""
    /\ op[1].apiSent = 0
    /\ op[1].result.kind = "generic"

\* the lifetime a token response states: its expires_in, 3600 when absent
StatedLifetime(e) == IF e.k = "absent" THEN 3600 ELSE e.v

\* C23: after a successful token exchange started at time now, the cache
\* holds exactly the response's access_token with expiry = now + expires_in
\* (3600 when expires_in is absent), and that token is what
\* _async_get_token returns (it is the bearer of the request sent next).
CachedAfterSuccess ==
    \A p \in Procs :
        (op[p].pc \in {"await_api1", "await_api2"} /\ op[p].lastTok = "ok")
        => (/\ acq[inst[p]].valid
            /\ acq[inst[p]].t0 = op[p].tnow
            /\ token[inst[p]] = op[p].exchTok
            /\ tokenExpiry[inst[p]] = op[p].tnow + StatedLifetime(acq[inst[p]].raw)
            /\ op[p].bearer = op[p].exchTok
            /\ op[p].retExpiry = tokenExpiry[inst[p]])

\* an exchange started at a time other than 0 and answered without
\* expires_in cached its token for 3600 s from that time
CachedAfterSuccessWitness ==
    /\ op[1].pc = "await_api1"
    /\ op[1].lastTok = "ok"
    /\ op[1].tnow > 0
    /\ acq[1].raw.k = "absent"
    /\ token[1] = "tokB"
    /\ tokenExpiry[1] = op[1].tnow + 3600
    /\ op[1].bearer = "tokB"

\* C24: every request sent to the API endpoint, the re-issued one included,
\* carries a TransactionID that differs from that of every other request
\* the client sent.
TransactionIdUnique ==
    \A p \in Procs :
        /\ op[p].apiSent >= 1 => op[p].txn1 # 0
        /\ op[p].apiSent = 2 => (op[p].txn2 # 0 /\ op[p].txn2 # op[p].txn1)

\* C25: _async_request itself, before any wrapper of a public operation,
\* raises only NSWFuelApiClientError, NSWFuelApiClientAuthError or
\* NSWFuelApiClientConnectionError, also when the failure happens during
\* the initial token acquisition.
RequestEngineBoundary ==
    \A p \in Procs :
        op[p].pc = "done"
        => op[p].reqResult.kind \in {"ok", "generic", "auth", "connection"}

\* C26: the error class is preserved through the public operations: an
\* NSWFuelApiClientAuthError or NSWFuelApiClientConnectionError raised by
\* _async_request or _async_get_token reaches the caller with the same
\* class, never downgraded to the generic NSWFuelApiClientError, and a
\* generic error is never upgraded to a subclass.
ErrorClassPreserved ==
    \A p \in Procs :
        op[p].pc = "done"
        => (/\ op[p].reqResult.kind \in {"auth", "connection", "generic"}
               => op[p].result.kind = op[p].reqResult.kind
            /\ op[p].tokExc \in {"auth", "generic"}
               => (/\ op[p].reqResult.kind = op[p].tokExc
                   /\ op[p].result.kind = op[p].tokExc)
            /\ op[p].result.kind \in {"auth", "connection"}
               => op[p].reqResult.kind = op[p].result.kind)

\* a 401 of the token endpoint during the refresh reached the caller of
\* get_fuel_prices_within_radius as NSWFuelApiClientAuthError
ErrorClassPreservedWitness ==
    /\ op[1].pc = "done"
    /\ op[1].kind = "get_fuel_prices_within_radius"
    /\ op[1].refreshes = 1
    /\ op[1].lastTok = "http401"
    /\ op[1].tokExc = "auth"
    /\ op[1].reqResult.kind = "auth"
    /\ op[1].result.kind = "auth"

\* the token exchange that a 401 triggered in p's operation failed or gave
\* no usable token
RefreshFailed(p) ==
    /\ op[p].pc = "done"
    /\ op[p].refreshes = 1
    /\ op[p].lastTok # "ok"

\* what C27 requires of the operation of p
FailedRefreshOutcome(p) ==
    /\ op[p].apiSent = 1
    /\ ~Truthy(token[inst[p]])
    /\ op[p].result.kind =
          IF op[p].lastTok \in {"http401", "empty"} THEN "auth" ELSE "generic"

\* C27: failed refresh after a 401: when the token exchange triggered by a
\* 401 fails, the request is not re-issued, the cache holds no token
\* afterwards, and the operation fails with NSWFuelApiClientAuthError if the
\* token endpoint answered 401 or returned an empty token, and with the
\* generic NSWFuelApiClientError for any other exchange failure.
FailedRefresh ==
    \A p \in Procs : RefreshFailed(p) => FailedRefreshOutcome(p)

\* the same, leaving aside the responses whose expires_in cannot be converted
FailedRefreshConvertibleExpiry ==
    \A p \in Procs :
        (RefreshFailed(p) /\ op[p].lastTok # "badExpiry") => FailedRefreshOutcome(p)

\* what a failed exchange must leave behind: the cache as it was, that is
\* without the token the 401 branch removed and, as before the exchange,
\* not usable, so that the next operation exchanges again
CacheAsBeforeExchange(p) ==
    /\ ~CacheValid(token[inst[p]], tokenExpiry[inst[p]], now)
    /\ op[p].refreshes = 1 => token[inst[p]] = NoneVal

\* C28: a token exchange that fails with an HTTP error status, an
\* unparseable body or a transport error (every failure other than a missing
\* access_token) leaves the cached token and expiry as they were before the
\* exchange, so the next operation that needs a token attempts the exchange
\* again.
FailedExchangeKeepsCache ==
    \A p \in Procs :
        (op[p].pc = "done" /\ op[p].lastTok \in TokenFailures \cup {"badExpiry"})
        => CacheAsBeforeExchange(p)

\* the same for the failures by HTTP status, unparseable or non-object body
\* and transport error alone
FailedExchangeKeepsCacheNamedFailures ==
    \A p \in Procs :
        (op[p].pc = "done" /\ op[p].lastTok \in TokenFailures)
        => CacheAsBeforeExchange(p)

\* the operation of p had its first attempt answered 401, exchanged a
\* token successfully and had the re-issued request answered 200
Recovered(p) ==
    /\ op[p].pc = "done"
    /\ op[p].status1 = HTTP_UNAUTHORIZED
    /\ op[p].refreshes = 1
    /\ op[p].lastTok = "ok"
    /\ op[p].status2 = 200

\* the times an operation can be called at
CallTimes == 0..(MaxTicks * 60)

\* after a recovery _async_request has returned (the operation gives its
\* result, or NSWFuelApiClientError when the body fails validation), the
\* cache holds the token of the refresh with its expiry, and is usable at
\* every time inside that token's window
RecoveredCache ==
    \A p \in Procs :
        Recovered(p)
        => (/\ op[p].reqResult.kind = "ok"
            /\ op[p].result.kind \in {"ok", "generic"}
            /\ op[p].apiSent = 2
            /\ op[p].bearer = op[p].exchTok
            /\ token[inst[p]] = op[p].exchTok
            /\ acq[inst[p]].valid /\ acq[inst[p]].t0 = op[p].tnow
            /\ tokenExpiry[inst[p]] = op[p].tnow + StatedLifetime(acq[inst[p]].raw)
            /\ \A t \in CallTimes :
                  (t >= now /\ t - op[p].tnow < StatedLifetime(acq[inst[p]].raw) - 60)
                  => CacheValid(token[inst[p]], tokenExpiry[inst[p]], t))

\* an operation called while the cached token is inside its window sends
\* its request with that token and exchanges nothing; a caller taking its
\* result leaves the cache alone
CalledInsideWindow ==
    \A p \in Procs :
        /\ (/\ op[p].pc = "idle" /\ op'[p].pc # "idle"
            /\ Truthy(token[inst[p]])
            /\ now < tokenExpiry[inst[p]] - 60)
           => (/\ op'[p].pc = "await_api1"
               /\ op'[p].tokSent = 0
               /\ op'[p].bearer = token[inst[p]]
               /\ token' = token /\ tokenExpiry' = tokenExpiry)
        /\ (op[p].pc = "done" /\ op'[p].pc = "idle")
           => (token' = token /\ tokenExpiry' = tokenExpiry)

\* C29: recovery after invalidation: when a 401 on the first attempt is
\* followed by a successful token exchange and a successful re-issued
\* request, the operation returns the re-issued request's body, the cache
\* holds the newly exchanged token with its new expiry, and the next
\* operation made within that token's validity window (minus 60 s)
\* performs no token exchange.
RecoveryAfterInvalidation ==
    /\ []RecoveredCache
    /\ [][CalledInsideWindow]_vars

\* a recovery that ended, one tick after its refresh, with a typed result
\* and the refreshed token cached, its window still open
RecoveryAfterInvalidationWitness ==
    /\ Recovered(1)
    /\ op[1].result.kind = "ok"
    /\ op[1].exchTok = "tokB"
    /\ token[1] = "tokB"
    /\ now > op[1].tnow
    /\ op[1].tnow > 0
    /\ now < tokenExpiry[1] - 60

\* the cached token and the cached expiry of instance c were written from
\* one token response: the response recorded in  acq[c]
FromOneResponse(c) ==
    /\ acq[c].valid
    /\ acq[c].tok = token[c]
    /\ tokenExpiry[c] = acq[c].t0 + StatedLifetime(acq[c].raw)

\* C30: conservative, consistent cache under interleaving: in every
\* reachable state where a token is cached, the cached token value and the
\* cached expiry come from the same token response, and the cached expiry
\* is never later than the time that response was received plus its
\* expires_in, for any interleaving of concurrent exchanges finishing in
\* any order.
ConsistentCache ==
    \A c \in Clients :
        Truthy(token[c])
        => (/\ FromOneResponse(c)
            /\ \A p \in Procs :
                  (inst[p] = c /\ op[p].pc \in {"await_api1", "await_api2"}
                   /\ op[p].tokSent > 0 /\ op[p].tnow = acq[c].t0
                   /\ op[p].bearer = token[c])
                  => tokenExpiry[c] <= now + StatedLifetime(acq[c].raw))

\* C30, for the exchanges whose response carries a convertible (or no)
\* expires_in: a cached token recorded from such a response has its
\* expiry from the same response
ConsistentCacheConvertibleExpiry ==
    \A c \in Clients :
        (Truthy(token[c]) /\ acq[c].valid) => FromOneResponse(c)

\* C30, the step that writes the cache: the expiry written is never later
\* than the time of the step (the response's arrival) plus the lifetime
\* the response states, and the clock never runs backwards
ConservativeExpiry ==
    [][/\ now' >= now
       /\ \A c \in Clients :
             (tokenExpiry'[c] # tokenExpiry[c] /\ Truthy(token'[c]))
             => (/\ acq'[c].valid
                 /\ token'[c] = acq'[c].tok
                 /\ tokenExpiry'[c] = acq'[c].t0 + StatedLifetime(acq'[c].raw)
                 /\ tokenExpiry'[c] <= now + StatedLifetime(acq'[c].raw))]_vars

\* the step is p receiving a 401 on its first attempt
Receives401(p) ==
    /\ op[p].pc = "await_api1"
    /\ op'[p].status1 = HTTP_UNAUTHORIZED

\* a 401 on the first attempt clears the cache whatever it holds and
\* starts an exchange of p's own in the same step
ClearsAndExchanges ==
    \A p \in Procs :
        Receives401(p)
        => (/\ token'[inst[p]] = NoneVal
            /\ op'[p].pc = "await_token2"
            /\ op'[p].tokSent = op[p].tokSent + 1
            /\ op'[p].refreshes = 1
            /\ op'[p].apiSent = 1)

\* the request re-issued by p carries the token of the response to p's own
\* exchange
OwnTokenReissued ==
    \A p \in Procs :
        (op[p].pc = "await_token2" /\ op'[p].pc = "await_api2")
        => (/\ op'[p].lastTok = "ok"
            /\ op'[p].bearer = op'[p].exchTok
            /\ token'[inst[p]] = op'[p].exchTok)

\* a re-issued request in flight or ended was preceded by an exchange of
\* the same operation and carries the token that exchange returned
ReissuedAfterOwnExchange ==
    \A p \in Procs :
        op[p].apiSent = 2
        => (/\ op[p].status1 = HTTP_UNAUTHORIZED
            /\ op[p].refreshes = 1
            /\ op[p].lastTok = "ok"
            /\ op[p].bearer = op[p].exchTok)

\* C31: stale 401 under concurrency: a 401 received by operation A clears
\* the cache unconditionally, even when a concurrent operation B has
\* already replaced the rejected token with a newer one; A then always
\* performs its own token exchange and A's re-issued request carries the
\* token returned by A's own exchange, not one cached by B.
Stale401 ==
    /\ []ReissuedAfterOwnExchange
    /\ [][ClearsAndExchanges /\ OwnTokenReissued]_vars

\* operation 1 sent tokA; operation 2 then exchanged and cached tokB and
\* sent it; the 401 to operation 1 has cleared the cache that held tokB and
\* operation 1 is exchanging
Stale401Witness ==
    /\ op[1].pc = "await_token2"
    /\ op[1].bearer = "tokA"
    /\ op[1].status1 = HTTP_UNAUTHORIZED
    /\ op[1].tokSent = 2
    /\ op[2].pc = "await_api1"
    /\ op[2].bearer = "tokB"
    /\ op[2].tokSent = 1
    /\ op[2].lastTok = "ok"
    /\ inst[1] = inst[2]
    /\ token[inst[1]] = NoneVal

\* a price entry whose fields other than stationcode let Price.deserialize
\* through: fueltype and price present, lastupdated a string
OtherFieldsPresent(d) ==
    d.fueltype /\ d.price /\ d.lastupdated.k \in {"dmy", "ymd", "garbage"}

\* stationcode is present with a value int() does not accept: null or a
\* non-numeric string
NotCoercible(c) == c.k \in {"null", "word"}

\* C32: Price.deserialize station-code coercion: when stationcode is absent
\* the Price has station_code = None and construction succeeds; when it is
\* present and convertible to an integer the Price has that integer; when
\* it is present but not convertible (including null) deserialization
\* fails rather than yielding None.
StationCodeCoercion ==
    (/\ dtoOp = "get_fuel_prices_for_station"
     /\ HasKey(dtoIn, "prices") /\ dtoIn.prices # << >>
     /\ \A i \in 1..Len(dtoIn.prices) : OtherFieldsPresent(dtoIn.prices[i]))
    => IF \E i \in 1..Len(dtoIn.prices) : NotCoercible(dtoIn.prices[i].stationcode)
       THEN dtoOut = [NoDtoResult EXCEPT !.kind = "generic"]
       ELSE /\ dtoOut.kind = "ok"
            /\ Len(dtoOut.prices) = Len(dtoIn.prices)
            /\ \A i \in 1..Len(dtoOut.prices) :
                  IF dtoIn.prices[i].stationcode.k = "absent"
                  THEN ~dtoOut.prices[i].has_station_code
                  ELSE /\ dtoOut.prices[i].has_station_code
                       /\ dtoIn.prices[i].stationcode.k \in {"int", "str"}
                       /\ dtoOut.prices[i].station_code = dtoIn.prices[i].stationcode.v

\* get_fuel_prices_for_station was given a price without stationcode and one
\* whose stationcode is null, and failed
StationCodeCoercionWitness ==
    /\ dtoOp = "get_fuel_prices_for_station"
    /\ HasKey(dtoIn, "prices")
    /\ dtoIn.prices = <<PriceItem(AbsentCode, DmyTime(5)), PriceItem(NullCode, DmyTime(5))>>
    /\ dtoOut.kind = "generic"

====
